---- MODULE Spec2Model ----
(***************************************************************************)
(* Model of the subcast tick loop (src/src/main.rs): the frame-driven      *)
(* subtitle scheduler, the render cache and the frame emitter.             *)
(*                                                                         *)
(* One loop iteration ("tick") of main is split into the steps the code    *)
(* executes in order; pc names the step that runs next:                    *)
(*   "tick"    line 91        compute now_ms                               *)
(*   "expire"  lines 94-98    expire the active cue                        *)
(*   "promote" lines 100-110  promote or drop the queued cue               *)
(*   "refill"  lines 112-136  read one line, or the late promotion branch  *)
(*   "render"  lines 139-159  redraw / clear / nothing                     *)
(*   "output"  lines 162-165  pixel readback                               *)
(*   "write"   lines 167-171  write the frame, advance frame_count         *)
(*   "done"    after a break                                               *)
(*                                                                         *)
(* Option<T> is modelled as a sequence of length 0 (None) or 1 (Some).     *)
(* A text line is a sequence of one-character strings.                     *)
(***************************************************************************)
EXTENDS Integers, Sequences, FiniteSets, TLC

None == <<>>
Some(x) == <<x>>

----------------------------------------------------------------------------
(* Bounds of the model.                                                     *)

\* Longest input (number of items the line iterator yields before EOF).
MaxLines == 3
\* Cap on the frame counter; above every tick count the inputs below reach.
MaxFrame == 100

----------------------------------------------------------------------------
(* IEEE-754 binary64 arithmetic, as used by                                 *)
(*   frame_dur_ms = 1000.0 / fps as f64                     (line 77)       *)
(*   now_ms = (frame_count as f64 * frame_dur_ms) as u64    (line 91)       *)
(* A finite positive double is [m, e]: m the significant bits, most         *)
(* significant first (at most MantBits of them), value m * 2^e.  Results    *)
(* are rounded to nearest, ties to even.  Intermediate big numbers are      *)
(* held in limbs of LimbBits bits so that no machine integer overflows.     *)

LimbBits == 15
LimbBase == 2 ^ LimbBits
MantBits == 53
FracLimbCount == 5

RECURSIVE BitsNat(_)
BitsNat(b) ==
    IF Len(b) = 0 THEN 0
    ELSE IF Len(b) = 1 THEN b[1]
    ELSE LET h == Len(b) \div 2
         IN BitsNat(SubSeq(b, 1, h)) * 2 ^ (Len(b) - h)
              + BitsNat(SubSeq(b, h + 1, Len(b)))

LimbsToBits(ls) ==
    [i \in 1..(LimbBits * Len(ls)) |->
        (ls[((i - 1) \div LimbBits) + 1]
            \div 2 ^ (LimbBits - 1 - ((i - 1) % LimbBits))) % 2]

BitsToLimbs(b) ==
    LET n == (Len(b) + LimbBits - 1) \div LimbBits
        pad == [i \in 1..(n * LimbBits - Len(b)) |-> 0] \o b
    IN [j \in 1..n |-> BitsNat(SubSeq(pad, (j - 1) * LimbBits + 1, j * LimbBits))]

\* k limbs of the binary expansion of r/den (r < den), and the remainder.
RECURSIVE FracLimbs(_, _, _)
FracLimbs(r, den, k) ==
    IF k = 0 THEN [limbs |-> <<>>, rem |-> r]
    ELSE LET t == r * LimbBase
             rest == FracLimbs(t % den, den, k - 1)
         IN [limbs |-> <<t \div den>> \o rest.limbs, rem |-> rest.rem]

\* limbs * n + carry, least significant limb last.
RECURSIVE MulLimbs(_, _, _)
MulLimbs(ls, n, carry) ==
    IF Len(ls) = 0 THEN <<carry>>
    ELSE LET t == ls[Len(ls)] * n + carry
         IN Append(MulLimbs(SubSeq(ls, 1, Len(ls) - 1), n, t \div LimbBase),
                   t % LimbBase)

BitsInc(b) ==
    LET zeros == {i \in 1..Len(b) : b[i] = 0}
    IN IF zeros = {} THEN <<1>> \o [i \in 1..Len(b) |-> 0]
       ELSE LET k == CHOOSE i \in zeros : \A j \in zeros : j <= i
            IN [i \in 1..Len(b) |-> IF i < k THEN b[i] ELSE IF i = k THEN 1 ELSE 0]

\* Round the exact value bits * 2^e (plus a nonzero tail when sticky) to a
\* double: round to nearest, ties to even.
Round53(bits, e, sticky) ==
    LET ones == {i \in 1..Len(bits) : bits[i] = 1}
    IN IF ones = {} THEN [m |-> <<>>, e |-> 0]
       ELSE LET lead == CHOOSE i \in ones : \A j \in ones : i <= j
                b == SubSeq(bits, lead, Len(bits))
            IN IF Len(b) <= MantBits THEN [m |-> b, e |-> e]
               ELSE LET m == SubSeq(b, 1, MantBits)
                        st == sticky \/ (\E i \in (MantBits + 2)..Len(b) : b[i] = 1)
                        up == b[MantBits + 1] = 1 /\ (st \/ m[MantBits] = 1)
                        m2 == IF up THEN BitsInc(m) ELSE m
                        e2 == e + (Len(b) - MantBits)
                    IN IF Len(m2) > MantBits
                       THEN [m |-> SubSeq(m2, 1, MantBits), e |-> e2 + 1]
                       ELSE [m |-> m2, e |-> e2]

\* a as f64 / b as f64, for integers a >= 0, b >= 1 (both exact as doubles).
F64Div(a, b) ==
    LET q == FracLimbs(a % b, b, FracLimbCount)
        whole == <<(a \div b) \div LimbBase, (a \div b) % LimbBase>>
    IN Round53(LimbsToBits(whole \o q.limbs), 0 - LimbBits * FracLimbCount, q.rem # 0)

\* (n as f64) * y, for an integer 0 <= n < LimbBase (exact as a double).
F64MulU64(n, y) == Round53(LimbsToBits(MulLimbs(BitsToLimbs(y.m), n, 0)), y.e, FALSE)

\* x as u64: truncation toward zero.
F64ToU64(x) ==
    IF x.e >= 0 THEN BitsNat(x.m \o [i \in 1..x.e |-> 0])
    ELSE IF Len(x.m) + x.e <= 0 THEN 0
    ELSE BitsNat(SubSeq(x.m, 1, Len(x.m) + x.e))

----------------------------------------------------------------------------
(* parse_line (lines 177-190).                                              *)

TAB == "\t"
Digits == <<"0", "1", "2", "3", "4", "5", "6", "7", "8", "9">>
DigitSet == {Digits[i] : i \in 1..10}
DigitVal(c) == (CHOOSE i \in 1..10 : Digits[i] = c) - 1

\* str::split(pat): the pieces between non-overlapping matches of pat,
\* found left to right.
RECURSIVE Split(_, _)
Split(s, pat) ==
    LET hits == {i \in 1..(Len(s) - Len(pat) + 1) : SubSeq(s, i, i + Len(pat) - 1) = pat}
    IN IF hits = {} THEN <<s>>
       ELSE LET i == CHOOSE h \in hits : \A g \in hits : h <= g
            IN <<SubSeq(s, 1, i - 1)>> \o Split(SubSeq(s, i + Len(pat), Len(s)), pat)

RECURSIVE DecimalNat(_)
DecimalNat(d) ==
    IF Len(d) = 0 THEN 0
    ELSE IF Len(d) = 1 THEN DigitVal(d[1])
    ELSE LET h == Len(d) \div 2
         IN DecimalNat(SubSeq(d, 1, h)) * 10 ^ (Len(d) - h)
              + DecimalNat(SubSeq(d, h + 1, Len(d)))

\* str::parse::<u64>(): an optional "+", then one or more decimal digits.
\* (The lines of this model have at most four digits, so the overflow
\* error of longer digit strings does not arise.)
ParseU64(s) ==
    LET d == IF Len(s) > 0 /\ s[1] = "+" THEN Tail(s) ELSE s
    IN IF Len(d) = 0 \/ (\E i \in 1..Len(d) : d[i] \notin DigitSet) THEN None
       ELSE Some(DecimalNat(d))

parse_line(line) ==
    LET parts == Split(line, <<TAB>>)
    IN IF Len(parts) < 3 THEN None
       ELSE LET start == ParseU64(parts[1])
                end == ParseU64(parts[2])
            IN IF start = None THEN None
               ELSE IF end = None THEN None
               ELSE Some([start |-> start[1], end |-> end[1],
                          lines |-> Split(parts[3], <<" ", " ", " ">>)])

----------------------------------------------------------------------------
(* draw_subtitle (lines 192-238).  The canvas is the sequence of draw       *)
(* calls issued since it was last cleared; <<>> is the transparent canvas.  *)
(* The clear of line 194 is the call ClearCall, which empties the canvas.   *)
(* up is line_index_from_bottom, the number of line heights above the       *)
(* baseline at which the line is drawn.                                     *)

Transparent == <<>>

\* canvas.clear(Color::TRANSPARENT), lines 149, 155, 194
ClearCall == [kind |-> "clear"]

\* surface.read_pixels, line 164
ReadCall == [kind |-> "read"]

\* shadow_paint (lines 199-211): alpha is (shadow_opacity * 255.0) as u8, and
\* the blur mask filter is set only for a positive radius.
ShadowPaint(shadow_opacity, shadow_blur) ==
    [alpha |-> shadow_opacity * 255,
     blur |-> IF shadow_blur > 0 THEN Some(shadow_blur) ELSE None]

\* draw_subtitle drawing the shadow whatever its opacity.
draw_subtitle_shadow_always(sub, shadow_opacity, shadow_blur, shadow_distance) ==
    LET n == Len(sub.lines)
        text(i) == [kind |-> "text", line |-> sub.lines[i], up |-> n - i]
        shadow(i) == [kind |-> "shadow", line |-> sub.lines[i], up |-> n - i,
                      offset |-> shadow_distance,
                      paint |-> ShadowPaint(shadow_opacity, shadow_blur)]
    IN [k \in 1..(2 * n) |-> IF k % 2 = 1 THEN shadow((k + 1) \div 2) ELSE text(k \div 2)]

draw_subtitle(sub, shadow_opacity, shadow_blur, shadow_distance) ==
    LET n == Len(sub.lines)
        text(i) == [kind |-> "text", line |-> sub.lines[i], up |-> n - i]
        shadow(i) == [kind |-> "shadow", line |-> sub.lines[i], up |-> n - i,
                      offset |-> shadow_distance,
                      paint |-> ShadowPaint(shadow_opacity, shadow_blur)]
    IN IF shadow_opacity > 0
       THEN [k \in 1..(2 * n) |-> IF k % 2 = 1 THEN shadow((k + 1) \div 2) ELSE text(k \div 2)]
       ELSE [k \in 1..n |-> text(k)]

----------------------------------------------------------------------------
(* Configuration (lines 38-50) and the inputs of the model.                 *)

Width == 1920
Height == 1080
RowBytes == Width * 4

Ok(line) == [ok |-> TRUE, line |-> line]
IoErr == [ok |-> FALSE, line |-> <<>>]

LineA == <<"0", TAB, "2", TAB, "a">>
LineB == <<"1", TAB, "3", TAB, "b", " ", " ", " ", "c">>
LineC == <<"2", TAB, "1", TAB, "x">>
LineE == <<"4", TAB, "5", TAB, "e">>
LineTwoFields == <<"1", TAB, "2">>
LineBadStart == <<"x", TAB, "2", TAB, "a">>
LineNoTick == <<"1", TAB, "2", TAB, "n">>
LinePlus == <<"+", "2", TAB, "4", TAB, "p", TAB, "q">>
LineMinus == <<"-", "1", TAB, "3", TAB, "z">>
LineEmptyEnd == <<"0", TAB, TAB, "z">>
LineHello == <<"1", "0", "0", "0", TAB, "3", "0", "0", "0", TAB, "H", "E", "L", "L", "O">>
LineTwo == <<"4", "0", TAB, "1", "2", "0", TAB, "A", " ", " ", " ", "B">>
LineLetterO == <<"4", "O", TAB, "8", "0", TAB, "A">>
LineLate == <<"1", "0", "0", "0", TAB, "1", "0", "5", "0", TAB, "z">>
LineEarly == <<"0", TAB, "5", "3", TAB, "y">>

FpsChoices == {19, 25, 500, 1000}

\* The items the line iterator may yield, per frame rate (timestamps are
\* milliseconds, so each frame rate gets lines of its own time scale).
ItemsFor(f) ==
    CASE f = 1000 -> {Ok(LineA), Ok(LineB), Ok(LineC), Ok(LineE),
                      Ok(LineTwoFields), IoErr}
      [] f = 500 -> {Ok(LineNoTick), Ok(LinePlus), Ok(LineMinus), Ok(LineEmptyEnd),
                     Ok(LineBadStart)}
      [] f = 25 -> {Ok(LineHello), Ok(LineTwo)}
      [] f = 19 -> {Ok(LineLate), Ok(LineEarly), Ok(LineLetterO)}

\* The shadow settings, per frame rate: the defaults (lines 47-49) and no
\* shadow; at 19 frames per second also a blur radius and a distance, with
\* and without a shadow.
ShadowConfigsFor(f) ==
    {[opacity |-> 1, blur |-> 0, distance |-> 0],
     [opacity |-> 0, blur |-> 0, distance |-> 0]}
    \cup (IF f = 19
          THEN {[opacity |-> 1, blur |-> 4, distance |-> 3],
                [opacity |-> 0, blur |-> 4, distance |-> 3]}
          ELSE {})

SeqsUpTo(S, n) == UNION {[1..k -> S] : k \in 0..n}

----------------------------------------------------------------------------
(* State.                                                                   *)

\* line 91: (frame_count as f64 * frame_dur_ms) as u64
NowMs(f, dur) == F64ToU64(F64MulU64(f, dur))

VARIABLES
    fps,                \* config.fps
    shadow_opacity,     \* config.shadow_opacity
    shadow_blur,        \* config.shadow_blur
    shadow_distance,    \* config.shadow_distance
    frame_dur_ms,       \* line 77
    now_of,             \* line 91: the value of now_ms at each frame count
    frame_count,        \* line 76
    now_ms,             \* line 91
    active_sub,         \* line 79
    queued_sub,         \* line 80
    last_rendered_key,  \* line 83
    is_cleared,         \* line 84
    needs_read,         \* line 139
    surface,            \* the canvas of the Skia surface (line 60)
    pixel_buffer,       \* line 88
    line_iter,          \* line 72: the items stdin has yet to yield
    stdout,             \* the frames written so far
    stderr,             \* the lines reported as skipped
    pc,                 \* the step of the loop body that runs next
    input,              \* history: the items stdin yields in all
    parsed,             \* line 116: the value of parse_line for each input line
    seen,               \* history: the cues parse_line has produced
    draw_log,           \* history: the calls of draw_subtitle
    read_failed,        \* history: some pixel readback has failed
    read_result,        \* line 164: the result of the tick's readback, if any
    read_at,            \* history: the frame count at which each item was read
    calls,              \* history: the calls made on the Skia surface
    out_err             \* history: a write to stdout has failed

vars == <<fps, shadow_opacity, frame_dur_ms, now_of, frame_count, now_ms, active_sub,
          queued_sub, last_rendered_key, is_cleared, needs_read, surface,
          pixel_buffer, line_iter, stdout, stderr, pc, input, parsed, seen,
          draw_log, read_failed, out_err, shadow_blur, shadow_distance,
          read_result, read_at, calls>>

config_vars == <<fps, shadow_opacity, shadow_blur, shadow_distance,
                 frame_dur_ms, now_of, input, parsed>>

Init ==
    /\ fps \in FpsChoices
    /\ frame_dur_ms = F64Div(1000, fps)
    /\ now_of = [f \in 0..MaxFrame |-> NowMs(f, frame_dur_ms)]
    /\ \E c \in ShadowConfigsFor(fps) :
          /\ shadow_opacity = c.opacity
          /\ shadow_blur = c.blur
          /\ shadow_distance = c.distance
    /\ frame_count = 0
    /\ now_ms = 0
    /\ active_sub = None
    /\ queued_sub = None
    /\ last_rendered_key = None
    /\ is_cleared = FALSE
    /\ needs_read = FALSE
    /\ surface = Transparent
    /\ pixel_buffer = [len |-> Height * RowBytes, img |-> Transparent]
    /\ input \in SeqsUpTo(ItemsFor(fps), MaxLines)
    /\ parsed = [i \in 1..Len(input) |->
                    IF input[i].ok THEN parse_line(input[i].line) ELSE None]
    /\ line_iter = input
    /\ stdout = <<>>
    /\ stderr = <<>>
    /\ pc = "tick"
    /\ seen = {}
    /\ draw_log = <<>>
    /\ read_failed = FALSE
    /\ out_err = FALSE
    /\ read_result = None
    /\ read_at = <<>>
    /\ calls = <<>>

----------------------------------------------------------------------------
(* The tick loop (lines 90-172).                                            *)

\* line 91; the guard caps the frame counter.  now_ms is a function of the
\* frame count and the frame duration alone; its values are tabulated in
\* now_of when frame_dur_ms is set.
TickStart ==
    /\ pc = "tick"
    /\ frame_count < MaxFrame
    /\ now_ms' = now_of[frame_count]
    /\ pc' = "expire"
    /\ UNCHANGED <<config_vars, frame_count, active_sub, queued_sub,
                   last_rendered_key, is_cleared, needs_read, surface,
                   pixel_buffer, line_iter, stdout, stderr, seen, draw_log,
                   read_failed, out_err,
                   read_at, calls, read_result>>

\* Expired with the end of the window inclusive.
ExpiredLate(now, sub) == now > sub.end

\* line 95
Expired(now, sub) == now >= sub.end

\* lines 94-98
Expire ==
    /\ pc = "expire"
    /\ active_sub' = IF active_sub # None /\ Expired(now_ms, active_sub[1])
                     THEN None ELSE active_sub
    /\ pc' = "promote"
    /\ UNCHANGED <<config_vars, frame_count, now_ms, queued_sub,
                   last_rendered_key, is_cleared, needs_read, surface,
                   pixel_buffer, line_iter, stdout, stderr, seen, draw_log,
                   read_failed, out_err,
                   read_at, calls, read_result>>

\* PromoteQueued without the test that the queued cue has not ended.
PromoteQueuedStale(now, active, queued) ==
    IF active = None /\ queued # None
    THEN IF now >= queued[1].start
         THEN [active |-> queued, queued |-> None]
         ELSE [active |-> None, queued |-> queued]
    ELSE [active |-> active, queued |-> queued]

\* PromoteQueued leaving the promoted cue in the queue as well.
PromoteQueuedClone(now, active, queued) ==
    IF active = None /\ queued # None
    THEN LET sub == queued[1]
         IN IF now < sub.end
            THEN IF now >= sub.start
                 THEN [active |-> Some(sub), queued |-> Some(sub)]
                 ELSE [active |-> None, queued |-> Some(sub)]
            ELSE [active |-> None, queued |-> None]
    ELSE [active |-> active, queued |-> queued]

\* PromoteQueued without the test that the window has opened.
PromoteQueuedEarly(now, active, queued) ==
    IF active = None /\ queued # None
    THEN LET sub == queued[1]
         IN IF now < sub.end
            THEN [active |-> Some(sub), queued |-> None]
            ELSE [active |-> None, queued |-> None]
    ELSE [active |-> active, queued |-> queued]

\* PromoteQueued promoting one millisecond after the window has opened.
PromoteQueuedLate(now, active, queued) ==
    IF active = None /\ queued # None
    THEN LET sub == queued[1]
         IN IF now < sub.end
            THEN IF now > sub.start
                 THEN [active |-> Some(sub), queued |-> None]
                 ELSE [active |-> None, queued |-> Some(sub)]
            ELSE [active |-> None, queued |-> None]
    ELSE [active |-> active, queued |-> queued]

\* lines 100-110: the slots after the promotion step, as [active, queued].
PromoteQueued(now, active, queued) ==
    IF active = None /\ queued # None
    THEN LET sub == queued[1]
         IN IF now < sub.end
            THEN IF now >= sub.start
                 THEN [active |-> Some(sub), queued |-> None]
                 ELSE [active |-> None, queued |-> Some(sub)]
            ELSE [active |-> None, queued |-> None]
    ELSE [active |-> active, queued |-> queued]

Promote ==
    /\ pc = "promote"
    /\ LET r == PromoteQueued(now_ms, active_sub, queued_sub)
       IN /\ active_sub' = r.active
          /\ queued_sub' = r.queued
    /\ pc' = "refill"
    /\ UNCHANGED <<config_vars, frame_count, now_ms, last_rendered_key,
                   is_cleared, needs_read, surface, pixel_buffer, line_iter,
                   stdout, stderr, seen, draw_log, read_failed, out_err,
                   read_at, calls, read_result>>

\* SlotsEmpty looking at the active slot alone.
SlotsEmptyActiveOnly(active, queued) == active = None

\* line 112
SlotsEmpty(active, queued) == active = None /\ queued = None

\* WindowOpen with the window opening one millisecond late.
WindowOpenLate(now, sub) == now > sub.start /\ now < sub.end

\* lines 119 and 133
WindowOpen(now, sub) == now >= sub.start /\ now < sub.end

\* RefillEof ending the loop as soon as the input is exhausted, whatever
\* the slots hold.
RefillEofEarly ==
    /\ pc = "refill"
    /\ line_iter = <<>>
    /\ pc' = "done"
    /\ UNCHANGED <<config_vars, frame_count, now_ms, active_sub, queued_sub,
                   last_rendered_key, is_cleared, needs_read, surface,
                   pixel_buffer, line_iter, stdout, stderr, seen, draw_log,
                   read_failed, out_err,
                   read_at, calls, read_result>>

\* lines 112-113, 129-131: line_iter.next() is None, break.
RefillEof ==
    /\ pc = "refill"
    /\ SlotsEmpty(active_sub, queued_sub)
    /\ line_iter = <<>>
    /\ pc' = "done"
    /\ UNCHANGED <<config_vars, frame_count, now_ms, active_sub, queued_sub,
                   last_rendered_key, is_cleared, needs_read, surface,
                   pixel_buffer, line_iter, stdout, stderr, seen, draw_log,
                   read_failed, out_err,
                   read_at, calls, read_result>>

\* RefillErr going on with the tick after a read error.
RefillErrContinues ==
    /\ pc = "refill"
    /\ active_sub = None /\ queued_sub = None
    /\ line_iter # <<>>
    /\ ~Head(line_iter).ok
    /\ line_iter' = Tail(line_iter)
    /\ read_at' = Append(read_at, frame_count)
    /\ pc' = "render"
    /\ UNCHANGED <<config_vars, frame_count, now_ms, active_sub, queued_sub,
                   last_rendered_key, is_cleared, needs_read, surface,
                   pixel_buffer, stdout, stderr, seen, draw_log, read_failed,
                   out_err,
                   calls, read_result>>

\* lines 112-114, 127: line_iter.next() is Some(Err(_)), break.
RefillErr ==
    /\ pc = "refill"
    /\ SlotsEmpty(active_sub, queued_sub)
    /\ line_iter # <<>>
    /\ ~Head(line_iter).ok
    /\ line_iter' = Tail(line_iter)
    /\ read_at' = Append(read_at, frame_count)
    /\ pc' = "done"
    /\ UNCHANGED <<config_vars, frame_count, now_ms, active_sub, queued_sub,
                   last_rendered_key, is_cleared, needs_read, surface,
                   pixel_buffer, stdout, stderr, seen, draw_log, read_failed,
                   out_err,
                   calls, read_result>>

\* line 116: parse_line applied to the line at the head of the iterator.
\* parse_line is a function of the line alone; its values for the lines of
\* the input are tabulated in parsed.
ParseHead == parsed[Len(input) - Len(line_iter) + 1]

\* RefillCue without the promotion of lines 119-121: the cue stays queued.
RefillCueNoPromote ==
    /\ pc = "refill"
    /\ active_sub = None /\ queued_sub = None
    /\ line_iter # <<>>
    /\ Head(line_iter).ok
    /\ ParseHead # None
    /\ queued_sub' = Some(ParseHead[1])
    /\ seen' = seen \cup {ParseHead[1]}
    /\ line_iter' = Tail(line_iter)
    /\ read_at' = Append(read_at, frame_count)
    /\ pc' = "render"
    /\ UNCHANGED <<config_vars, frame_count, now_ms, active_sub, last_rendered_key,
                   is_cleared, needs_read, surface, pixel_buffer, stdout,
                   stderr, draw_log, read_failed, out_err, calls, read_result>>

\* lines 112-122: a line that parses becomes the queued cue and is promoted
\* at once when its window is open.
RefillCue ==
    /\ pc = "refill"
    /\ SlotsEmpty(active_sub, queued_sub)
    /\ line_iter # <<>>
    /\ Head(line_iter).ok
    /\ ParseHead # None
    /\ LET sub == ParseHead[1]
       IN /\ IF WindowOpen(now_ms, sub)
             THEN active_sub' = Some(sub) /\ queued_sub' = None
             ELSE active_sub' = active_sub /\ queued_sub' = Some(sub)
          /\ seen' = seen \cup {sub}
    /\ line_iter' = Tail(line_iter)
    /\ read_at' = Append(read_at, frame_count)
    /\ pc' = "render"
    /\ UNCHANGED <<config_vars, frame_count, now_ms, last_rendered_key,
                   is_cleared, needs_read, surface, pixel_buffer, stdout,
                   stderr, draw_log, read_failed, out_err,
                   calls, read_result>>

\* RefillSkip treating a line that does not parse as the end of the input.
RefillSkipBreaks ==
    /\ pc = "refill"
    /\ active_sub = None /\ queued_sub = None
    /\ line_iter # <<>>
    /\ Head(line_iter).ok
    /\ ParseHead = None
    /\ stderr' = Append(stderr, Head(line_iter).line)
    /\ line_iter' = Tail(line_iter)
    /\ read_at' = Append(read_at, frame_count)
    /\ pc' = "done"
    /\ UNCHANGED <<config_vars, frame_count, now_ms, active_sub, queued_sub,
                   last_rendered_key, is_cleared, needs_read, surface,
                   pixel_buffer, stdout, seen, draw_log, read_failed, out_err,
                   calls, read_result>>

\* lines 112-116, 123-125: a line that does not parse is reported and the
\* tick goes on to render.
RefillSkip ==
    /\ pc = "refill"
    /\ SlotsEmpty(active_sub, queued_sub)
    /\ line_iter # <<>>
    /\ Head(line_iter).ok
    /\ ParseHead = None
    /\ stderr' = Append(stderr, Head(line_iter).line)
    /\ line_iter' = Tail(line_iter)
    /\ read_at' = Append(read_at, frame_count)
    /\ pc' = "render"
    /\ UNCHANGED <<config_vars, frame_count, now_ms, active_sub, queued_sub,
                   last_rendered_key, is_cleared, needs_read, surface,
                   pixel_buffer, stdout, seen, draw_log, read_failed, out_err,
                   calls, read_result>>

\* lines 132-136: a slot is occupied, no line is read.
LatePromote ==
    /\ pc = "refill"
    /\ ~SlotsEmpty(active_sub, queued_sub)
    /\ IF queued_sub # None /\ active_sub = None /\ WindowOpen(now_ms, queued_sub[1])
       THEN active_sub' = queued_sub /\ queued_sub' = None
       ELSE UNCHANGED <<active_sub, queued_sub>>
    /\ pc' = "render"
    /\ UNCHANGED <<config_vars, frame_count, now_ms, last_rendered_key,
                   is_cleared, needs_read, surface, pixel_buffer, line_iter,
                   stdout, stderr, seen, draw_log, read_failed, out_err,
                   read_at, calls, read_result>>

\* KeyOf forgetting the end of the window.
KeyOfStart(sub) == <<sub.start, sub.start>>

\* line 142
KeyOf(sub) == <<sub.start, sub.end>>

\* NeedsRedraw without the cache: every tick with an active cue redraws.
NeedsRedrawAlways(last, key) == TRUE

\* line 143
NeedsRedraw(last, key) == last # Some(key)

\* RenderAction without the idle clear: nothing is done when no cue is active.
RenderActionNoIdle(active, last, cleared, now) ==
    IF active # None
    THEN IF NeedsRedraw(last, KeyOf(active[1])) THEN "redraw"
         ELSE IF now < active[1].start /\ ~cleared THEN "prestart"
         ELSE "noop"
    ELSE "noop"

\* RenderAction clearing on every tick without an active cue.
RenderActionClearAlways(active, last, cleared, now) ==
    IF active # None
    THEN IF NeedsRedraw(last, KeyOf(active[1])) THEN "redraw"
         ELSE IF now < active[1].start /\ ~cleared THEN "prestart"
         ELSE "noop"
    ELSE "idle"

\* lines 141-159: which of the four rendering branches the tick takes.
RenderAction(active, last, cleared, now) ==
    IF active # None
    THEN IF NeedsRedraw(last, KeyOf(active[1])) THEN "redraw"
         ELSE IF now < active[1].start /\ ~cleared THEN "prestart"
         ELSE "noop"
    ELSE IF ~cleared THEN "idle"
    ELSE "noop"

\* lines 139-159
Render ==
    /\ pc = "render"
    /\ LET act == RenderAction(active_sub, last_rendered_key, is_cleared, now_ms)
           drawn == IF act = "redraw"
                    THEN draw_subtitle(active_sub[1], shadow_opacity, shadow_blur,
                                       shadow_distance)
                    ELSE Transparent
           made == IF act = "noop" THEN <<>> ELSE <<ClearCall>> \o drawn
       IN /\ surface' = CASE act = "redraw" -> drawn
                          [] act \in {"prestart", "idle"} -> Transparent
                          [] OTHER -> surface
          /\ last_rendered_key' = CASE act = "redraw" -> Some(KeyOf(active_sub[1]))
                                    [] act = "idle" -> None
                                    [] OTHER -> last_rendered_key
          /\ is_cleared' = CASE act = "redraw" -> FALSE
                             [] act \in {"prestart", "idle"} -> TRUE
                             [] OTHER -> is_cleared
          /\ needs_read' = (act # "noop")
          /\ draw_log' = IF act = "redraw"
                         THEN Append(draw_log, [key |-> KeyOf(active_sub[1]),
                                                tick |-> frame_count, now |-> now_ms])
                         ELSE draw_log
          /\ calls' = IF act = "noop" THEN calls
                      ELSE calls \o [k \in 1..Len(made) |->
                                      [tick |-> frame_count, call |-> made[k]]]
    /\ pc' = "output"
    /\ UNCHANGED <<config_vars, frame_count, now_ms, active_sub, queued_sub,
                   pixel_buffer, line_iter, stdout, stderr, seen, read_failed,
                   out_err,
                   read_at, read_result>>

\* read_pixels wiping the buffer when it fails.
read_pixels_clobber(buf, canvas, ok) ==
    [buf EXCEPT !.img = IF ok THEN canvas ELSE Transparent]

\* surface.read_pixels (line 164): on success the buffer holds the canvas,
\* on failure it is left as it was.
read_pixels(buf, canvas, ok) == IF ok THEN [buf EXCEPT !.img = canvas] ELSE buf

\* lines 162-165; the result of the readback is ignored.
Output ==
    /\ pc = "output"
    /\ \E ok \in (IF needs_read THEN BOOLEAN ELSE {TRUE}) :
          /\ pixel_buffer' = IF needs_read
                             THEN read_pixels(pixel_buffer, surface, ok)
                             ELSE pixel_buffer
          /\ read_failed' = (read_failed \/ ~ok)
          /\ read_result' = IF needs_read THEN Some(ok) ELSE None
          /\ calls' = IF needs_read
                      THEN Append(calls, [tick |-> frame_count, call |-> ReadCall])
                      ELSE calls
    /\ pc' = "write"
    /\ UNCHANGED <<config_vars, frame_count, now_ms, active_sub, queued_sub,
                   last_rendered_key, is_cleared, needs_read, surface,
                   line_iter, stdout, stderr, seen, draw_log, out_err,
                   read_at>>

\* lines 167, 171: the write succeeds.
WriteOk ==
    /\ pc = "write"
    /\ stdout' = Append(stdout, pixel_buffer)
    /\ frame_count' = frame_count + 1
    /\ pc' = "tick"
    /\ UNCHANGED <<config_vars, now_ms, active_sub, queued_sub,
                   last_rendered_key, is_cleared, needs_read, surface,
                   pixel_buffer, line_iter, stderr, seen, draw_log,
                   read_failed, out_err,
                   read_at, calls, read_result>>

\* WriteFail counting the frame it failed to write.
WriteFailCounted ==
    /\ pc = "write"
    /\ out_err' = TRUE
    /\ frame_count' = frame_count + 1
    /\ pc' = "done"
    /\ UNCHANGED <<config_vars, now_ms, active_sub, queued_sub,
                   last_rendered_key, is_cleared, needs_read, surface,
                   pixel_buffer, line_iter, stdout, stderr, seen, draw_log,
                   read_failed,
                   read_at, calls, read_result>>

\* lines 167-169: the write fails, break.
WriteFail ==
    /\ pc = "write"
    /\ out_err' = TRUE
    /\ pc' = "done"
    /\ UNCHANGED <<config_vars, frame_count, now_ms, active_sub, queued_sub,
                   last_rendered_key, is_cleared, needs_read, surface,
                   pixel_buffer, line_iter, stdout, stderr, seen, draw_log,
                   read_failed,
                   read_at, calls, read_result>>

Next ==
    \/ TickStart
    \/ Expire
    \/ Promote
    \/ RefillEof
    \/ RefillErr
    \/ RefillCue
    \/ RefillSkip
    \/ LatePromote
    \/ Render
    \/ Output
    \/ WriteOk
    \/ WriteFail

Spec == Init /\ [][Next]_vars

\* The loop runs on: a step that is possible is eventually taken.
FairSpec == Spec /\ WF_vars(Next)

TypeOK ==
    /\ pc \in {"tick", "expire", "promote", "refill", "render", "output", "write", "done"}
    /\ frame_count \in 0..MaxFrame
    /\ Len(active_sub) <= 1 /\ Len(queued_sub) <= 1
    /\ is_cleared \in BOOLEAN /\ needs_read \in BOOLEAN

----------------------------------------------------------------------------
(* Properties.                                                              *)

\* A frame has just been written: now_ms, active_sub and queued_sub are
\* still those of the tick that wrote it.
Written == pc = "tick" /\ frame_count > 0

LastFrame == stdout[Len(stdout)]

\* What the canvas holds after draw_subtitle has drawn the cue.
Image(sub) == draw_subtitle(sub, shadow_opacity, shadow_blur, shadow_distance)

\* The cues of the well-formed lines of the input.
InputCues ==
    {parse_line(input[i].line)[1] :
        i \in {j \in 1..Len(input) : input[j].ok /\ parse_line(input[j].line) # None}}

\* floor(f * 1000 / fps) for the tick that wrote the last frame.
ExactNow == ((frame_count - 1) * 1000) \div fps

\* C1, as stated: for every well-formed cue of the input with start < end,
\* every written frame whose virtual time floor(f*1000/fps) lies in
\* [start, end) shows that cue's rendered lines, the cue being the active
\* cue of that tick (pixel readbacks succeeding).
C1_EveryCueShownInWindow ==
    (Written /\ ~read_failed) =>
        \A c \in InputCues :
            (c.start < c.end /\ c.start <= ExactNow /\ ExactNow < c.end) =>
                (active_sub = Some(c) /\ LastFrame.img = Image(c))

\* C1, amended: for every cue that has been read (in this tick or an earlier
\* one), every written frame whose virtual time now_ms, as the loop computes
\* it, lies in [start, end) shows that cue's rendered lines, the cue being
\* the active cue of that tick (pixel readbacks succeeding).
C1_ReadCueShownInWindow ==
    (Written /\ ~read_failed) =>
        \A c \in seen :
            (c.start <= now_ms /\ now_ms < c.end) =>
                (active_sub = Some(c) /\ LastFrame.img = Image(c))

\* A frame showing a cue that was read after a malformed line and after an
\* earlier cue.
C1_Witness ==
    /\ Written /\ ~read_failed
    /\ active_sub # None
    /\ active_sub[1].start <= now_ms /\ now_ms < active_sub[1].end
    /\ LastFrame.img = Image(active_sub[1])
    /\ LastFrame.img # Transparent
    /\ Cardinality(seen) >= 2
    /\ stderr # <<>>

\* C2: whenever a cue is active after the expiry step of a tick (so in every
\* tick that renders and writes with an active cue) start <= now < end holds
\* for it, and every call of the draw path was made for a cue with
\* start <= now < end at the tick of the call; a cue with end <= start or
\* whose end has passed is therefore never active and never drawn.
C2_ActiveInsideWindow ==
    /\ (pc # "expire" /\ active_sub # None) =>
          (active_sub[1].start <= now_ms /\ now_ms < active_sub[1].end)
    /\ \A i \in 1..Len(draw_log) :
          /\ draw_log[i].key[1] <= draw_log[i].now
          /\ draw_log[i].now < draw_log[i].key[2]
    /\ \A c \in seen : c.end <= c.start =>
          /\ active_sub # Some(c)
          /\ \A i \in 1..Len(draw_log) : draw_log[i].key # KeyOf(c)

\* The loop has ended after some cue was drawn, a cue with end <= start was
\* read, and a cue with start < end was read too late and never drawn.
C2_Witness ==
    /\ pc = "done"
    /\ draw_log # <<>>
    /\ \E c \in seen : c.end <= c.start
    /\ \E c \in seen : c.start < c.end /\ \A i \in 1..Len(draw_log) : draw_log[i].key # KeyOf(c)

\* C3: every frame written in a tick in which no cue is active is fully
\* transparent, pixel readbacks succeeding.
C3_IdleFramesTransparent ==
    (Written /\ active_sub = None /\ ~read_failed) => LastFrame.img = Transparent

\* A transparent frame written between two cues, the second one queued and
\* not yet open, after the first one was drawn.
C3_Witness ==
    /\ Written /\ ~read_failed
    /\ active_sub = None
    /\ queued_sub # None
    /\ draw_log # <<>>
    /\ LastFrame.img = Transparent
    /\ \E i \in 1..Len(stdout) : stdout[i].img # Transparent

\* C4: draw_subtitle is called at most once for each (start, end) key.
C4_DrawOncePerKey ==
    \A i, j \in 1..Len(draw_log) : i < j => draw_log[i].key # draw_log[j].key

\* The second cue to be drawn is in at least its second tick.
C4_Witness ==
    /\ Written
    /\ active_sub # None
    /\ now_ms > active_sub[1].start
    /\ Len(draw_log) = 2
    /\ draw_log[2].key = KeyOf(active_sub[1])
    /\ draw_log[2].tick < frame_count - 1

\* The malformed lines of the claim: fewer than three tab-separated fields,
\* or a start or end field that is not an unsigned decimal number.
Malformed(line) ==
    LET parts == Split(line, <<TAB>>)
    IN \/ Len(parts) < 3
       \/ ParseU64(parts[1]) = None
       \/ ParseU64(parts[2]) = None

\* C5: reading a malformed line produces no cue, leaves both slots empty,
\* does not end the loop (the tick goes on to render) and consumes that line
\* only; and when the loop ends on end-of-input, every well-formed line of
\* the input, also those after malformed lines, has been read as a cue and
\* every malformed line has been reported.
C5_MalformedSkipped ==
    /\ [][(/\ pc = "refill"
           /\ active_sub = None /\ queued_sub = None
           /\ line_iter # <<>>
           /\ Head(line_iter).ok
           /\ Malformed(Head(line_iter).line))
          => (/\ active_sub' = None /\ queued_sub' = None
              /\ seen' = seen
              /\ pc' = "render"
              /\ line_iter' = Tail(line_iter))]_vars
    /\ []((pc = "done" /\ ~out_err /\ \A i \in 1..Len(input) : input[i].ok) =>
            /\ seen = InputCues
            /\ stderr = SelectSeq([i \in 1..Len(input) |-> input[i].line], Malformed))

\* The loop has ended on end-of-input after a malformed line was skipped
\* and the well-formed line after it was read, activated and drawn.
C5_Witness ==
    /\ pc = "done" /\ ~out_err
    /\ Len(input) >= 2
    /\ input[1].ok /\ Malformed(input[1].line)
    /\ input[2].ok /\ ~Malformed(input[2].line)
    /\ stderr # <<>>
    /\ \E i \in 1..Len(draw_log) : draw_log[i].key = KeyOf(parse_line(input[2].line)[1])

\* C6: a step ends the loop if and only if it is the refill step finding
\* the input exhausted with both slots empty, the refill step getting a read
\* error, or a failed write; the loop never ends while a cue is active or
\* queued except by a failed write; a failed write leaves the frame counter
\* as it was.
C6_LoopEnds ==
    [][LET ends == pc # "done" /\ pc' = "done"
           atRefill == pc = "refill" /\ active_sub = None /\ queued_sub = None
           eof == atRefill /\ line_iter = <<>>
           readErr == atRefill /\ line_iter # <<>> /\ ~Head(line_iter).ok
           writeFailed == pc = "write" /\ out_err' /\ ~out_err
       IN /\ ends <=> (eof \/ readErr \/ writeFailed)
          /\ (ends /\ (active_sub # None \/ queued_sub # None)) => writeFailed
          /\ writeFailed => (frame_count' = frame_count /\ stdout' = stdout)]_vars

\* The loop was ended by a failed write while a cue was active, after some
\* frames were written.
C6_Witness ==
    /\ pc = "done"
    /\ out_err
    /\ active_sub # None
    /\ frame_count >= 2

\* C7: the loop terminates, and when it was not ended by a failed write it
\* ends with both slots empty (every cue read has expired or was dropped).
C7_Terminates ==
    <>(pc = "done" /\ (out_err \/ (active_sub = None /\ queued_sub = None)))

\* The loop has ended on end-of-input, all writes having succeeded, after
\* reading at least two cues and writing frames.
C7_Witness ==
    /\ pc = "done" /\ ~out_err
    /\ line_iter = <<>>
    /\ Len(input) > 0 /\ input[Len(input)].ok
    /\ Cardinality(seen) >= 2
    /\ frame_count >= 3

\* C8: the number of frames written equals the frame counter, at every step
\* and so at termination (a tick that ends the loop adds no frame), and
\* every written frame has width*height*4 bytes.
C8_FrameCount ==
    /\ Len(stdout) = frame_count
    /\ \A i \in 1..Len(stdout) : stdout[i].len = Width * Height * 4

\* The loop has ended on end-of-input after writing several frames.
C8_Witness ==
    /\ pc = "done" /\ ~out_err
    /\ line_iter = <<>>
    /\ frame_count >= 3
    /\ Len(stdout) = frame_count

HelloRun == fps = 25 /\ input = <<Ok(LineHello)>>

HelloCue == parse_line(LineHello)[1]

\* C9: with fps = 25 and the single cue 1000..3000 HELLO, tick f has virtual
\* time 40*f; a written frame is transparent when its virtual time is below
\* 1000 or at least 3000 and shows HELLO otherwise (readbacks succeeding);
\* the draw path is called at tick 25 only and every later frame is equal to
\* the frame of tick 25; frames are written for ticks 0..74 and the loop
\* ends in tick 75 (3000 ms).
C9_Hello ==
    HelloRun =>
        /\ HelloCue = [start |-> 1000, end |-> 3000, lines |-> <<<<"H", "E", "L", "L", "O">>>>]
        /\ Written => now_ms = 40 * (frame_count - 1)
        /\ (Written /\ ~read_failed) =>
              LastFrame.img = IF 1000 <= now_ms /\ now_ms < 3000
                              THEN Image(HelloCue) ELSE Transparent
        /\ (Written /\ ~read_failed /\ 1000 <= now_ms /\ now_ms < 3000) =>
              LastFrame.img # Transparent
        /\ Len(draw_log) <= 1
        /\ \A i \in 1..Len(draw_log) :
              draw_log[i].tick = 25 /\ draw_log[i].key = <<1000, 3000>>
        /\ (Written /\ frame_count > 26) => LastFrame = stdout[26]
        /\ frame_count <= 75
        /\ (pc = "done" /\ ~out_err) =>
              (frame_count = 75 /\ now_ms = 3000 /\ Len(draw_log) = 1)

\* The HELLO run has ended on end-of-input with every readback succeeding.
C9_Witness ==
    /\ HelloRun
    /\ pc = "done" /\ ~out_err /\ ~read_failed
    /\ Len(stdout) = 75
    /\ stdout[25].img = Transparent
    /\ stdout[26].img = Image(HelloCue)
    /\ stdout[75].img = Image(HelloCue)

\* C10: a line is consumed only by the refill step of a tick in which both
\* slots are empty after the expire and promote steps, and the two slots
\* never hold a cue at the same time.
C10_SingleLookahead ==
    /\ [][line_iter' # line_iter =>
            (pc = "refill" /\ active_sub = None /\ queued_sub = None
             /\ line_iter' = Tail(line_iter))]_vars
    /\ [](~(active_sub # None /\ queued_sub # None))

\* A second cue is active: it was read after the first one expired.
C10_Witness ==
    /\ active_sub # None
    /\ Cardinality(seen) >= 2
    /\ Len(draw_log) >= 2
    /\ Len(line_iter) < Len(input)


----------------------------------------------------------------------------
(* The clock, the refill step and the rendering calls.                      *)

\* The item with index i has been read, was a line, and did not parse.
SkippedAt(i) == input[i].ok /\ parsed[i] = None

\* The frame written before the one the tick is about to write; the buffer
\* is all zeroes until the first readback.
PrevFrame ==
    IF stdout = <<>> THEN [len |-> Height * RowBytes, img |-> Transparent]
    ELSE stdout[Len(stdout)]

\* The calls made on the surface by the step being taken.
NewCalls == [k \in 1..(Len(calls') - Len(calls)) |-> calls'[Len(calls) + k].call]

\* C11: the frame counter is the number of frames written, and the clock a
\* tick uses is floor(frame_count * 1000 / fps).
C11_ClockIsExactFloor ==
    /\ frame_count = Len(stdout)
    /\ pc # "tick" => now_ms = (frame_count * 1000) \div fps

\* C12: no frame is written between the reading of a line that does not
\* parse and the reading of the next item: the next item is read in the
\* same tick, and if there is none the frame counter stays where it was.
C12_MalformedRetriedInTick ==
    \A i \in 1..Len(read_at) :
        SkippedAt(i) =>
            IF i < Len(read_at) THEN read_at[i + 1] = read_at[i]
            ELSE frame_count = read_at[i]

\* C13: when the frame of a tick is rendered, a cue in the queued slot has
\* a window that is not open: now < start or now >= end.
C13_QueuedWindowClosedAtRender ==
    (pc \in {"render", "output", "write"} /\ queued_sub # None)
        => (now_ms < queued_sub[1].start \/ now_ms >= queued_sub[1].end)

\* A cue that waited in the queue is rendered as the active cue at the tick
\* its window opens.
C13_Witness ==
    /\ pc = "render"
    /\ active_sub # None /\ queued_sub = None
    /\ read_at # <<>> /\ read_at[Len(read_at)] < frame_count
    /\ now_ms = active_sub[1].start
    /\ last_rendered_key # Some(<<active_sub[1].start, active_sub[1].end>>)

\* The tick has nothing to render: the active cue is the one the cache
\* names, or no cue is active and the surface is known to be clear.
NoOpTick ==
    \/ active_sub # None
       /\ last_rendered_key = Some(<<active_sub[1].start, active_sub[1].end>>)
    \/ active_sub = None /\ is_cleared

\* The call with index i is a clear that no draw follows.
BareClear(i) ==
    /\ calls[i].call.kind = "clear"
    /\ i < Len(calls) => calls[i + 1].call.kind \notin {"shadow", "text"}

\* C14: a tick with nothing to render makes no call on the surface, leaves
\* the cache key and the cleared flag alone and writes the frame the tick
\* before wrote; between two clears of an idle surface a cue is drawn.
C14_NoOpTicksUntouched ==
    /\ [][/\ (pc = "render" /\ NoOpTick) =>
               /\ calls' = calls
               /\ surface' = surface
               /\ last_rendered_key' = last_rendered_key
               /\ is_cleared' = is_cleared
               /\ ~needs_read'
          /\ (pc = "output" /\ ~needs_read) =>
               /\ calls' = calls
               /\ pixel_buffer' = pixel_buffer
          /\ (pc = "write" /\ ~needs_read /\ stdout' # stdout) =>
               /\ stdout # <<>>
               /\ stdout' = Append(stdout, stdout[Len(stdout)])]_vars
    /\ [](\A i, j \in 1..Len(calls) :
            (i < j /\ BareClear(i) /\ BareClear(j)) =>
                \E d \in 1..Len(draw_log) :
                    calls[i].tick < draw_log[d].tick /\ draw_log[d].tick < calls[j].tick)

\* A tick with nothing to render has written its frame, after a cue was
\* drawn and the surface cleared again.
C14_Witness ==
    /\ Written
    /\ ~needs_read
    /\ active_sub = None
    /\ draw_log # <<>>
    /\ Len(stdout) >= 2
    /\ stdout[Len(stdout)] = stdout[Len(stdout) - 1]
    /\ \E i \in 1..Len(calls) : BareClear(i) /\ calls[i].tick > draw_log[1].tick

\* C15: a readback that fails leaves the buffer and the cues alone and the
\* tick goes on to write; the frame written is the one before it, the
\* frame counter advances and the loop goes on to the next tick, unless the
\* write itself fails.
C15_ReadbackFailureTolerated ==
    [][/\ (pc = "output" /\ read_result' = Some(FALSE)) =>
            /\ pixel_buffer' = pixel_buffer
            /\ pc' = "write"
            /\ UNCHANGED <<active_sub, queued_sub, frame_count, stdout>>
       /\ (pc = "write" /\ read_result = Some(FALSE)) =>
            \/ /\ stdout' = Append(stdout, PrevFrame)
               /\ frame_count' = frame_count + 1
               /\ pc' = "tick"
               /\ UNCHANGED <<active_sub, queued_sub>>
            \/ out_err' /\ pc' = "done"
       /\ (pc = "tick" /\ read_result = Some(FALSE)) => pc' = "expire"]_vars

\* A frame was written after a readback that failed while the surface held
\* something else than the buffer, and the next tick has begun.
C15_Witness ==
    /\ pc = "expire"
    /\ read_result = Some(FALSE)
    /\ Len(stdout) >= 2
    /\ stdout[Len(stdout)] = stdout[Len(stdout) - 1]
    /\ surface # stdout[Len(stdout)].img
    /\ frame_count = Len(stdout)

\* C16: a redraw clears the canvas once, first, and then takes the lines of
\* the cue in order; with a positive shadow opacity each line is drawn as
\* shadow and then as text, with shadow opacity 0 as text alone.
C16_RedrawCallOrder ==
    [][(pc = "render" /\ draw_log' # draw_log) =>
          LET sub == active_sub[1]
              n == Len(sub.lines)
              seg == NewCalls
          IN /\ seg # <<>>
             /\ seg[1].kind = "clear"
             /\ \A k \in 2..Len(seg) : seg[k].kind \in {"shadow", "text"}
             /\ IF shadow_opacity > 0
                THEN /\ Len(seg) = 1 + 2 * n
                     /\ \A i \in 1..n :
                          /\ seg[2 * i].kind = "shadow"
                          /\ seg[2 * i].line = sub.lines[i]
                          /\ seg[2 * i + 1].kind = "text"
                          /\ seg[2 * i + 1].line = sub.lines[i]
                ELSE /\ Len(seg) = 1 + n
                     /\ \A i \in 1..n :
                          /\ seg[i + 1].kind = "text"
                          /\ seg[i + 1].line = sub.lines[i]]_vars

\* A cue has been drawn with shadow opacity 0 and a positive blur radius
\* and distance.
C16_Witness ==
    /\ shadow_opacity = 0 /\ shadow_blur > 0 /\ shadow_distance > 0
    /\ draw_log # <<>>
    /\ \E k \in 1..Len(calls) : calls[k].call.kind = "text"

\* C17: the active and the queued slot are never both occupied, and a cue
\* that was read and is in neither slot has ended.
C17_SlotsNeverBothOccupied ==
    /\ active_sub = None \/ queued_sub = None
    /\ \A c \in seen : (active_sub = Some(c) \/ queued_sub = Some(c) \/ now_ms >= c.end)

\* A second cue is held while the first, read earlier, is gone.
C17_Witness ==
    /\ Cardinality(seen) >= 2
    /\ queued_sub # None
    /\ pc = "write"

\* C18: when a frame has been written, an active cue is the cue the cache
\* names, the surface holds its image and the cleared flag is off, its draw
\* being the last one made; with no active cue the cache names none, the
\* surface is clear and the cleared flag is on.
C18_CacheCoherentAtWrite ==
    Written =>
        IF active_sub # None
        THEN /\ last_rendered_key = Some(<<active_sub[1].start, active_sub[1].end>>)
             /\ ~is_cleared
             /\ surface = Image(active_sub[1])
             /\ draw_log # <<>>
             /\ draw_log[Len(draw_log)].key = <<active_sub[1].start, active_sub[1].end>>
        ELSE /\ last_rendered_key = None
             /\ is_cleared
             /\ surface = Transparent

\* A frame has been written with the second cue drawn.
C18_Witness ==
    /\ Written
    /\ active_sub # None
    /\ Len(draw_log) >= 2
    /\ draw_log[1].key # draw_log[2].key

\* C19: the rendering step never finds an active cue that the cache names
\* and that has not started while the cleared flag is off.
C19_PrestartClearNeverTaken ==
    pc = "render" =>
        ~(/\ active_sub # None
          /\ last_rendered_key = Some(<<active_sub[1].start, active_sub[1].end>>)
          /\ now_ms < active_sub[1].start
          /\ ~is_cleared)

\* The rendering step finds an active cue that the cache names with the
\* cleared flag off: the start of the cue is what decides.
C19_Witness ==
    /\ pc = "render"
    /\ active_sub # None
    /\ last_rendered_key = Some(<<active_sub[1].start, active_sub[1].end>>)
    /\ ~is_cleared

\* C20: when the refill step finds a slot occupied, a cue is active or the
\* queued cue has not started, and the step leaves both slots as they are.
C20_LatePromotionNeverFires ==
    /\ [](pc = "refill" =>
            (active_sub # None \/ queued_sub = None \/ now_ms < queued_sub[1].start))
    /\ [][(pc = "refill" /\ (active_sub # None \/ queued_sub # None)) =>
             UNCHANGED <<active_sub, queued_sub>>]_vars

\* The refill step finds a queued cue and no active one.
C20_Witness ==
    /\ pc = "refill"
    /\ queued_sub # None
    /\ active_sub = None

====
